---- MODULE Spec2Model ----
(***************************************************************************)
(* E-wallet: users, purses and transfers between purses.                   *)
(*                                                                         *)
(* The store (users, purses, transactions) is the committed database       *)
(* state; every action is one operation of the program up to and including *)
(* its db.session.commit().  Money is kept in millionths of a currency     *)
(* unit and rates in thousandths, so purse_from_amount * rate is computed  *)
(* exactly for the amounts the model draws.                                *)
(*                                                                         *)
(* Spec runs the operations on purses and transfers one call at a time;    *)
(* SpecRepeat is the transfer path alone, one construction longer;         *)
(* SpecUsers is the users side; SpecConcurrent interleaves the statements  *)
(* of two Transaction.__init__ calls in separate sessions; SpecRates adds  *)
(* lookups of the rate table to purse creations and transfers; SpecFrame   *)
(* runs transfers in the three-purse store of the test fixture;            *)
(* SpecLifecycle is every route that creates, updates or deletes a user or *)
(* a purse; SpecRoundTrip sends money between two purses of different      *)
(* currencies and back.                                                    *)
(***************************************************************************)
EXTENDS Integers, Sequences, FiniteSets, TLC

\* ------------------------------------------------------------------ bounds
MaxPurses    == 2   \* purse rows the store may hold
MaxTransfers == 1   \* Transaction objects that may be constructed
MaxAmount    == 3   \* largest purse_from_amount requested, in whole units
FixtureUnits == 2   \* opening balance of the seeded purse, whole units
MaxUsers     == 2   \* user rows the store may hold

\* --------------------------------------------------------------- constants
Unit == 1000000     \* one currency unit, in millionths

Currency == {"USD", "EUR", "GBP", "UAH"}

\* Slip: the rates are kept as whole numbers (0.95 becomes 0).
Rates_Whole ==
  [USD |-> [USD |-> 1000, EUR |-> 0,    GBP |-> 0,    UAH |-> 36000],
   EUR |-> [USD |-> 1000, EUR |-> 1000, GBP |-> 0,    UAH |-> 38000],
   GBP |-> [USD |-> 1000, EUR |-> 1000, GBP |-> 1000, UAH |-> 43000],
   UAH |-> [USD |-> 0,    EUR |-> 0,    GBP |-> 0,    UAH |-> 1000]]

\* Rates, in thousandths (0.95 is 950).
Rates ==
  [USD |-> [USD |-> 1000, EUR |-> 950,  GBP |-> 840,  UAH |-> 36760],
   EUR |-> [USD |-> 1050, EUR |-> 1000, GBP |-> 880,  UAH |-> 38770],
   GBP |-> [USD |-> 1200, EUR |-> 1130, GBP |-> 1000, UAH |-> 43940],
   UAH |-> [USD |-> 27,   EUR |-> 26,   GBP |-> 23,   UAH |-> 1000]]

\* Slip: the table is read with the two currencies exchanged.
get_rate_Swapped(currency_from, currency_to) == Rates[currency_to][currency_from]

get_rate(currency_from, currency_to) == Rates[currency_from][currency_to]

\* amount * rate for a rate in thousandths (the product is split so that
\* it stays inside the integer range of the checker).
Times(amount, rate) ==
  (amount \div 1000) * rate + ((amount % 1000) * rate) \div 1000

\* ------------------------------------------------------------------- state
VARIABLES
  users,         \* users table: row id |-> [username, email, phone, is_active]
  purses,        \* purses table: row id |-> [user_id, currency, balance, is_active]
  transactions,  \* transactions table: row id |-> stored Transaction record
  unsaved,       \* Transaction objects built by __init__, not yet added to the session
  last,          \* the call being answered: operation, arguments, outcome
  sessions       \* Transaction.__init__ calls under way in concurrent sessions

vars == <<users, purses, transactions, unsaved, last, sessions>>

PurseIds == 1..MaxPurses                       \* ids a request may name
UserIds  == 1..MaxUsers                        \* user ids a request may name
Handles  == {1, 2, 3}                         \* values of username, email, phone
None     == 0                                  \* an argument the request leaves out
Amounts  == {u * Unit : u \in (-1)..MaxAmount} \* requested purse_from_amount
CurrencyArgs == {"USD", "EUR", "XXX"}          \* currency strings a request may carry

\* purse_from_id, purse_to_id and purse_from_amount of a transfer request
TransferArgs == PurseIds \X PurseIds \X Amounts

\* The record of a call.  A call that committed something keeps its
\* arguments; a rejected call keeps the operation and how it was rejected.
Call(op, id, f, t, a, status, error) ==
  [op |-> op, id |-> id, from |-> f, to |-> t, amount |-> a,
   status |-> status, error |-> error]

Done(op, id, f, t, a, status) == Call(op, id, f, t, a, status, "none")

Rejected(op, status, error) == Call(op, 0, 0, 0, 0, status, error)

\* The record of a listing call: the ids of the rows it returned.
Listing(op, rows) ==
  [op |-> op, id |-> 0, from |-> 0, to |-> 0, amount |-> 0,
   status |-> "200", error |-> "none", rows |-> rows]

\* No call is being answered: the program waits for the next one.
Idle == Call("idle", 0, 0, 0, 0, "idle", "none")

\* ------------------------------------------------- Transaction.__init__
\* Slip: the balance check runs before the destination lookup.
ModelError_FundsFirst(ps, f, t, a) ==
  IF f \notin DOMAIN ps THEN "not_found_from"
  ELSE IF ps[f].balance < a THEN "insufficient"
  ELSE IF t \notin DOMAIN ps THEN "not_found_to"
  ELSE IF f = t THEN "same_purse"
  ELSE "none"

\* Slip: <= for <, a transfer of the whole balance is turned down.
ModelError_KeepsSome(ps, f, t, a) ==
  IF f \notin DOMAIN ps THEN "not_found_from"
  ELSE IF t \notin DOMAIN ps THEN "not_found_to"
  ELSE IF f = t THEN "same_purse"
  ELSE IF ps[f].balance <= a THEN "insufficient"
  ELSE "none"

\* Slip: the same-purse check is left out.
ModelError_NoSameCheck(ps, f, t, a) ==
  IF f \notin DOMAIN ps THEN "not_found_from"
  ELSE IF t \notin DOMAIN ps THEN "not_found_to"
  ELSE IF ps[f].balance < a THEN "insufficient"
  ELSE "none"

\* The first failing check of Transaction.__init__, or "none".
ModelError(ps, f, t, a) ==
  IF f \notin DOMAIN ps THEN "not_found_from"
  ELSE IF t \notin DOMAIN ps THEN "not_found_to"
  ELSE IF f = t THEN "same_purse"
  ELSE IF ps[f].balance < a THEN "insufficient"
  ELSE "none"

\* What the caller of Transaction(...) sees: the object, or ValueError.
ModelOutcome(ps, f, t, a) ==
  IF ModelError(ps, f, t, a) = "none"
    THEN <<"returned", "none">>
    ELSE <<"ValueError", ModelError(ps, f, t, a)>>

\* Slip: the conversion is skipped, the destination gets purse_from_amount.
purse_to_amount_Unconverted(ps, f, t, a) == a

\* purse_to_amount as __init__ computes it.
purse_to_amount(ps, f, t, a) ==
  IF ps[f].currency # ps[t].currency
    THEN Times(a, get_rate(ps[f].currency, ps[t].currency))
    ELSE a

\* Slip: the debit is written to every row of the source's currency.
Debit_ByCurrency(ps, f, a) ==
  [p \in DOMAIN ps |->
     IF ps[p].currency = ps[f].currency
       THEN [ps[p] EXCEPT !.balance = @ - a]
       ELSE ps[p]]

\* purse_from.balance -= purse_from_amount
Debit(ps, f, a) == [ps EXCEPT ![f].balance = @ - a]

\* Slip: = for +=, the destination balance is overwritten.
Credit_Assign(ps, t, b) == [ps EXCEPT ![t].balance = b]

\* purse_to.balance += purse_to_amount
Credit(ps, t, b) == [ps EXCEPT ![t].balance = @ + b]

\* Keyword arguments a caller may add to the three a transfer needs: the two
\* currencies and purse_to_amount, each left out or given.
NoCurrency      == "None"
KwargCurrencies == {NoCurrency, "USD", "EUR"}
KwargAmounts    == {None, Unit}

\* super().__init__(**kwargs): the attributes as the caller passed them.
Kwargs(f, t, a, cf, ct, b) ==
  [purse_from_id       |-> f,
   purse_to_id         |-> t,
   purse_from_currency |-> cf,
   purse_to_currency   |-> ct,
   purse_from_amount   |-> a,
   purse_to_amount     |-> b]

\* Slip: the currencies the caller passed are kept when they were given.
TransactionAttrs_KeepsPassed(ps, kw) ==
  [kw EXCEPT
     !.purse_from_currency = IF @ = NoCurrency THEN ps[kw.purse_from_id].currency ELSE @,
     !.purse_to_currency   = IF @ = NoCurrency THEN ps[kw.purse_to_id].currency ELSE @,
     !.purse_to_amount     = purse_to_amount(ps, kw.purse_from_id, kw.purse_to_id,
                                             kw.purse_from_amount)]

\* The assignments of __init__ after its checks: both currencies are read
\* from the purse rows and purse_to_amount is computed, over whatever the
\* keyword arguments had set.
TransactionAttrs(ps, kw) ==
  [kw EXCEPT
     !.purse_from_currency = ps[kw.purse_from_id].currency,
     !.purse_to_currency   = ps[kw.purse_to_id].currency,
     !.purse_to_amount     = purse_to_amount(ps, kw.purse_from_id, kw.purse_to_id,
                                             kw.purse_from_amount)]

\* The Transaction object __init__ leaves behind when no check fails, for a
\* call with the three arguments of a transfer.
NewTransaction(ps, f, t, a) ==
  TransactionAttrs(ps, Kwargs(f, t, a, NoCurrency, NoCurrency, None))

\* Slip: the destination is credited with purse_from_amount, unconverted.
InitPurses_CreditRaw(ps, f, t, a) ==
  IF ModelError(ps, f, t, a) = "none"
    THEN Credit(Debit(ps, f, a), t, a)
    ELSE ps

\* Slip: the source is debited before the balance check.
InitPurses_DebitFirst(ps, f, t, a) ==
  IF ModelError(ps, f, t, a) = "none"
    THEN Credit(Debit(ps, f, a), t, purse_to_amount(ps, f, t, a))
    ELSE IF ModelError(ps, f, t, a) = "insufficient" THEN Debit(ps, f, a)
    ELSE ps

\* The purses table committed by __init__.
InitPurses(ps, f, t, a) ==
  IF ModelError(ps, f, t, a) = "none"
    THEN Credit(Debit(ps, f, a), t, purse_to_amount(ps, f, t, a))
    ELSE ps

\* Transaction(purse_from_id=f, purse_to_id=t, purse_from_amount=a): the
\* checks, both balance updates and the commit of line 129, with any further
\* keyword arguments.  The object is not in the session yet, so the commit
\* stores the balances only.  Calls
\* that raise are told apart by the exception and the table they leave.
\* The calls are drawn from args; at most cap objects are constructed in a run.
TransactionInitWith(args, cap) ==
  /\ last = Idle
  /\ \/ \E x \in args :
          /\ ModelOutcome(purses, x[1], x[2], x[3])[1] = "returned"
          /\ Len(unsaved) + Len(transactions) < cap
          /\ purses' = InitPurses(purses, x[1], x[2], x[3])
          /\ \E rec \in {TransactionAttrs(purses, Kwargs(x[1], x[2], x[3], cf, ct, b)) :
                             cf \in KwargCurrencies, ct \in KwargCurrencies,
                             b \in KwargAmounts} :
               unsaved' = Append(unsaved, rec)
          /\ last' = Done("Transaction", 0, x[1], x[2], x[3], "returned")
     \/ \E r \in {<<ModelOutcome(purses, x[1], x[2], x[3]),
                     InitPurses(purses, x[1], x[2], x[3])>> : x \in args} :
          /\ r[1][1] # "returned"
          /\ purses' = r[2]
          /\ unsaved' = unsaved
          /\ last' = Rejected("Transaction", r[1][1], r[1][2])
  /\ UNCHANGED <<sessions, users, transactions>>

\* The calls a request may make, at most cap of them going through.
TransactionInitUpTo(cap) == TransactionInitWith(TransferArgs, cap)

TransactionInit == TransactionInitUpTo(MaxTransfers)

\* ------------------------------- Transaction.__init__, statement by statement
\* Two sessions run __init__ at the same time.  Each has its own Purse
\* objects: a query copies the committed row, the balance arithmetic is done
\* on the copies, and the commit writes the balances that changed.
SessionIds == {1, 2}

NoSession ==
  [pc |-> "idle", from |-> 0, to |-> 0, amount |-> 0,
   from_balance |-> 0, to_balance |-> 0, error |-> "none"]

Raise(session, error) == [session EXCEPT !.pc = "raised", !.error = error]

\* Transaction(purse_from_id=f, purse_to_id=t, purse_from_amount=a) is called.
Begin(s) ==
  /\ sessions[s].pc = "idle"
  /\ \E x \in TransferArgs :
       sessions' = [sessions EXCEPT ![s] =
                      [NoSession EXCEPT !.pc = "query_from", !.from = x[1],
                                        !.to = x[2], !.amount = x[3]]]
  /\ UNCHANGED <<users, purses, transactions, unsaved, last>>

\* purse_from = Purse.query.filter_by(id=self.purse_from_id).first()
QueryFrom(s) ==
  LET me == sessions[s] IN
  /\ me.pc = "query_from"
  /\ sessions' = [sessions EXCEPT ![s] =
       IF me.from \notin DOMAIN purses THEN Raise(me, "not_found_from")
       ELSE [me EXCEPT !.pc = "query_to",
                       !.from_balance = purses[me.from].balance]]
  /\ UNCHANGED <<users, purses, transactions, unsaved, last>>

\* purse_to = Purse.query...first(), then the same-purse test and the balance
\* test on the session's copy of the source.
QueryTo(s) ==
  LET me == sessions[s] IN
  /\ me.pc = "query_to"
  /\ sessions' = [sessions EXCEPT ![s] =
       IF me.to \notin DOMAIN purses THEN Raise(me, "not_found_to")
       ELSE IF me.from = me.to THEN Raise(me, "same_purse")
       ELSE IF me.from_balance < me.amount THEN Raise(me, "insufficient")
       ELSE [me EXCEPT !.pc = "commit",
                       !.to_balance = purses[me.to].balance]]
  /\ UNCHANGED <<users, purses, transactions, unsaved, last>>

\* The UPDATE statements of the flush: a balance the session changed is
\* written as the value the session computed from its copy.
Flush(ps, me) ==
  LET credit == purse_to_amount(ps, me.from, me.to, me.amount) IN
  [p \in DOMAIN ps |->
     IF p = me.from /\ me.amount # 0
       THEN [ps[p] EXCEPT !.balance = me.from_balance - me.amount]
     ELSE IF p = me.to /\ credit # 0
       THEN [ps[p] EXCEPT !.balance = me.to_balance + credit]
     ELSE ps[p]]

\* purse_from.balance -= ...; purse_to.balance += ...; db.session.commit()
Commit(s) ==
  LET me == sessions[s] IN
  /\ me.pc = "commit"
  /\ purses' = Flush(purses, me)
  /\ unsaved' = Append(unsaved, NewTransaction(purses, me.from, me.to, me.amount))
  /\ sessions' = [sessions EXCEPT ![s].pc = "returned"]
  /\ UNCHANGED <<users, transactions, last>>

\* db.session.add(transaction); db.session.commit() by the caller, for the
\* objects in the order they were built.
SessionAddCommit ==
  /\ last = Idle
  /\ unsaved # << >>
  /\ transactions' = Append(transactions, Head(unsaved))
  /\ unsaved' = Tail(unsaved)
  /\ last' = Done("add_commit", Len(transactions) + 1, Head(unsaved).purse_from_id,
                  Head(unsaved).purse_to_id, Head(unsaved).purse_from_amount,
                  "committed")
  /\ UNCHANGED <<sessions, users, purses>>

\* ------------------------------------------- rest/transactions.py
\* Slip: _validate_args without its balance check.
RestError_NoFunds(ps, f, t, a) ==
  IF f \notin DOMAIN ps \/ ~ps[f].is_active THEN "not_found_from"
  ELSE IF t \notin DOMAIN ps \/ ~ps[t].is_active THEN "not_found_to"
  ELSE IF f = t THEN "same_purse"
  ELSE "none"

\* Slip: _validate_args with the balance check ahead of the same-purse check.
RestError_FundsFirst(ps, f, t, a) ==
  IF f \notin DOMAIN ps \/ ~ps[f].is_active THEN "not_found_from"
  ELSE IF t \notin DOMAIN ps \/ ~ps[t].is_active THEN "not_found_to"
  ELSE IF ps[f].balance < a THEN "insufficient"
  ELSE IF f = t THEN "same_purse"
  ELSE "none"

\* The check of _validate_args that aborts the request with 400, or "none".
RestError(ps, f, t, a) ==
  IF f \notin DOMAIN ps \/ ~ps[f].is_active THEN "not_found_from"
  ELSE IF t \notin DOMAIN ps \/ ~ps[t].is_active THEN "not_found_to"
  ELSE IF f = t THEN "same_purse"
  ELSE IF ps[f].balance < a THEN "insufficient"
  ELSE "none"

\* Transaction() without arguments: purse_from_id is None, no purse row has
\* that id, and __init__ raises at its first check.
BareTransactionError == "not_found_from"

\* Status and error of POST /api/transactions: 400 from _validate_args, or
\* the ValueError of Transaction() that the request runs into after it.
RestOutcome(ps, f, t, a) ==
  IF RestError(ps, f, t, a) # "none"
    THEN <<"400", RestError(ps, f, t, a)>>
    ELSE <<"500", BareTransactionError>>

\* POST /api/transactions: nothing is written either way.
TransactionsListAPI_post ==
  /\ last = Idle
  /\ \E out \in {RestOutcome(purses, x[1], x[2], x[3]) : x \in TransferArgs} :
       last' = Rejected("rest_post", out[1], out[2])
  /\ UNCHANGED <<sessions, users, purses, transactions, unsaved>>

\* ------------------------------------------ views/transactions.py
\* TransactionForm.validate: the error it appends, "crash" when the source
\* purse row is missing (None has no balance), or "none".
FormError(ps, f, t, a) ==
  IF f = t THEN "same_purse"
  ELSE IF f \notin DOMAIN ps THEN "crash"
  ELSE IF ps[f].balance < a THEN "insufficient"
  ELSE "none"

\* POST /transactions/<_id>: status and error of the response.
EditOutcome(txs, ps, id, f, t, a) ==
  IF id = 0 THEN <<"500", BareTransactionError>>
  ELSE IF id \notin DOMAIN txs THEN <<"404", "no_transaction">>
  ELSE IF FormError(ps, f, t, a) = "crash" THEN <<"500", "crash">>
  ELSE IF FormError(ps, f, t, a) # "none" THEN <<"200", FormError(ps, f, t, a)>>
  ELSE <<"500", "no_update_method">>

\* Slip: a stored Transaction takes the form's amount (an update method that
\* writes the form data into the row).
TransactionBlueprint_edit_Updates(id) ==
  /\ last = Idle
  /\ \E x \in TransferArgs :
       LET out == EditOutcome(transactions, purses, id, x[1], x[2], x[3]) IN
       /\ transactions' = IF out[2] = "no_update_method"
                             THEN [transactions EXCEPT ![id].purse_from_amount = x[3] + Unit]
                             ELSE transactions
       /\ last' = Rejected("view_post", out[1], out[2])
  /\ UNCHANGED <<sessions, users, purses, unsaved>>

\* The view never reaches db.session.add: _id = 0 raises in Transaction(),
\* an unknown _id aborts with 404, and a stored Transaction has no update
\* method.
TransactionBlueprint_edit(id) ==
  /\ last = Idle
  /\ \E out \in {EditOutcome(transactions, purses, id, x[1], x[2], x[3]) :
                    x \in TransferArgs} :
       last' = Rejected("view_post", out[1], out[2])
  /\ UNCHANGED <<sessions, users, purses, transactions, unsaved>>

\* ------------------------------------------------- rest/purses.py
\* Slip: the currency check is left out.
PurseError_AnyCurrency(us, user_id, currency) ==
  IF user_id \notin DOMAIN us THEN "user_not_found"
  ELSE "none"

\* _validate_args of the purses API, then Purse.__init__ (the same checks).
PurseError(us, user_id, currency) ==
  IF user_id \notin DOMAIN us THEN "user_not_found"
  ELSE IF currency \notin Currency THEN "invalid_currency"
  ELSE "none"

\* What the caller of Purse(user_id=..., currency=...) sees: the object, or
\* ValueError.
PurseModelOutcome(us, user_id, currency) ==
  IF PurseError(us, user_id, currency) = "none"
    THEN <<"returned", "none">>
    ELSE <<"ValueError", PurseError(us, user_id, currency)>>

\* The row a new purse gets: column defaults balance 0.0, is_active True.
NewPurse(user_id, currency) ==
  [user_id |-> user_id, currency |-> currency, balance |-> 0, is_active |-> TRUE]

\* POST /api/purses
PursesListAPI_post(user_id, currency) ==
  LET err == PurseError(users, user_id, currency) IN
  /\ last = Idle
  /\ err = "none" => Len(purses) < MaxPurses
  /\ purses' = IF err = "none"
                 THEN Append(purses, NewPurse(user_id, currency))
                 ELSE purses
  /\ last' = IF err = "none"
               THEN Done("purse_post", Len(purses) + 1, 0, 0, 0, "201")
               ELSE Rejected("purse_post", "400", err)
  /\ UNCHANGED <<sessions, users, transactions, unsaved>>

\* Slip: closing the purse also empties it.
Deactivate_Empties(ps, id) == [ps EXCEPT ![id].is_active = FALSE, ![id].balance = 0]

\* Purse.query.all(): every row of the purses table.
PurseQueryAll(ps) == DOMAIN ps

\* GET /api/purses
PursesListAPI_get ==
  /\ last = Idle
  /\ last' = Listing("purse_list", PurseQueryAll(purses))
  /\ UNCHANGED <<sessions, users, purses, transactions, unsaved>>

\* make_query of the purses view without search arguments: the rows with
\* is_active == True.
make_query(ps) == {p \in DOMAIN ps : ps[p].is_active}

\* GET /purses/ (view)
PurseBlueprint_list ==
  /\ last = Idle
  /\ last' = Listing("purse_view_list", make_query(purses))
  /\ UNCHANGED <<sessions, users, purses, transactions, unsaved>>

\* purse.is_active = False
Deactivate(ps, id) == [ps EXCEPT ![id].is_active = FALSE]

\* DELETE /api/purses/<_id>
PursesAPI_delete(id) ==
  /\ last = Idle
  /\ purses' = IF id \in DOMAIN purses THEN Deactivate(purses, id) ELSE purses
  /\ last' = IF id \in DOMAIN purses
               THEN Done("purse_delete", id, 0, 0, 0, "204")
               ELSE Rejected("purse_delete", "404", "purse_not_found")
  /\ UNCHANGED <<sessions, users, transactions, unsaved>>

\* DELETE /purses/<_id> (view): a missing row makes purse None and the
\* assignment raises AttributeError.
PurseBlueprint_delete(id) ==
  /\ last = Idle
  /\ purses' = IF id \in DOMAIN purses THEN Deactivate(purses, id) ELSE purses
  /\ last' = IF id \in DOMAIN purses
               THEN Done("purse_view_delete", id, 0, 0, 0, "200")
               ELSE Rejected("purse_view_delete", "500", "crash")
  /\ UNCHANGED <<sessions, users, transactions, unsaved>>

\* ------------------------------------------------- rest/users.py
\* Slip: the cascade is left out, the purses stay as they are.
DeactivatePursesOf_Nothing(ps, id) == ps

\* Every purse with user_id = id gets is_active = False.
DeactivatePursesOf(ps, id) ==
  [p \in DOMAIN ps |->
     IF ps[p].user_id = id THEN [ps[p] EXCEPT !.is_active = FALSE] ELSE ps[p]]

\* Slip: the is_active test is left out, any row is found.
UserFound_AnyRow(us, id) == id \in DOMAIN us

\* _get_user_or_abort_if_doesnt_exist: the row exists and is active;
\* otherwise the request is aborted with 404.
UserFound(us, id) == id \in DOMAIN us /\ us[id].is_active

\* The record of a call on /api/users/<_id> that is turned down: it keeps
\* the id the call named.
RejectedFor(op, id, status, error) == Call(op, id, 0, 0, 0, status, error)

\* GET /api/users/<_id>
UsersAPI_get(id) ==
  /\ last = Idle
  /\ last' = IF UserFound(users, id)
               THEN Done("user_get", id, 0, 0, 0, "200")
               ELSE RejectedFor("user_get", id, "404", "user_not_found")
  /\ UNCHANGED <<sessions, users, purses, transactions, unsaved>>

\* DELETE /api/users/<_id>: 404 for a missing or inactive user.
UsersAPI_delete(id) ==
  LET found == UserFound(users, id) IN
  /\ last = Idle
  /\ users' = IF found THEN [users EXCEPT ![id].is_active = FALSE] ELSE users
  /\ purses' = IF found THEN DeactivatePursesOf(purses, id) ELSE purses
  /\ last' = IF found
               THEN Done("user_delete", id, 0, 0, 0, "204")
               ELSE RejectedFor("user_delete", id, "404", "user_not_found")
  /\ UNCHANGED <<sessions, transactions, unsaved>>

\* DELETE /users/<_id> (view): no is_active test; a missing row raises
\* AttributeError before the commit.
UserBlueprint_delete(id) ==
  LET found == id \in DOMAIN users IN
  /\ last = Idle
  /\ users' = IF found THEN [users EXCEPT ![id].is_active = FALSE] ELSE users
  /\ purses' = IF found THEN DeactivatePursesOf(purses, id) ELSE purses
  /\ last' = IF found
               THEN Done("user_view_delete", id, 0, 0, 0, "200")
               ELSE Rejected("user_view_delete", "500", "crash")
  /\ UNCHANGED <<sessions, transactions, unsaved>>

\* The row of a new user: column default is_active True.
NewUser(username, email, phone) ==
  [username |-> username, email |-> email, phone |-> phone, is_active |-> TRUE]

\* User.query.filter_by(<column>=value).first() finds a row.
Holds(us, column, value) == \E i \in DOMAIN us : us[i][column] = value

\* Slip: _validate_args without its email query.
UserRestError_NoEmail(us, username, email, phone, birth_ok) ==
  IF Holds(us, "username", username) THEN "username_taken"
  ELSE IF Holds(us, "phone", phone) THEN "phone_taken"
  ELSE IF ~birth_ok THEN "invalid_birth_date"
  ELSE IF phone = None \/ email = None THEN "crash"
  ELSE "none"

\* _validate_args of the users API: the check that aborts with 400, "crash"
\* when phone or email is left out (the format test gets None), or "none".
\* An argument left out matches no row.
UserRestError(us, username, email, phone, birth_ok) ==
  IF Holds(us, "username", username) THEN "username_taken"
  ELSE IF Holds(us, "email", email) THEN "email_taken"
  ELSE IF Holds(us, "phone", phone) THEN "phone_taken"
  ELSE IF ~birth_ok THEN "invalid_birth_date"
  ELSE IF phone = None \/ email = None THEN "crash"
  ELSE "none"

UserRestStatus(error) == IF error = "crash" THEN "500" ELSE "400"

\* POST /api/users: every argument is required by the parser.
UsersListAPI_post(username, email, phone, birth_ok) ==
  LET err == UserRestError(users, username, email, phone, birth_ok) IN
  /\ last = Idle
  /\ err = "none" => Len(users) < MaxUsers
  /\ users' = IF err = "none"
                THEN Append(users, NewUser(username, email, phone))
                ELSE users
  /\ last' = IF err = "none"
               THEN Done("user_post", Len(users) + 1, 0, 0, 0, "201")
               ELSE Rejected("user_post", UserRestStatus(err), err)
  /\ UNCHANGED <<sessions, purses, transactions, unsaved>>

\* Slip: the update also writes is_active, as the column default True.
SetAttrs_Reactivates(row, username, email, phone) ==
  [row EXCEPT !.username = IF username = None THEN @ ELSE username,
              !.email    = IF email = None THEN @ ELSE email,
              !.phone    = IF phone = None THEN @ ELSE phone,
              !.is_active = TRUE]

\* setattr(user, key, value) for every argument that is not None.
SetAttrs(row, username, email, phone) ==
  [row EXCEPT !.username = IF username = None THEN @ ELSE username,
              !.email    = IF email = None THEN @ ELSE email,
              !.phone    = IF phone = None THEN @ ELSE phone]

\* PUT /api/users/<_id>: 404 for a missing or inactive user, then the same
\* _validate_args; the arguments are optional.
UsersAPI_put(id, username, email, phone, birth_ok) ==
  LET found == UserFound(users, id)
      err   == UserRestError(users, username, email, phone, birth_ok)
  IN
  /\ last = Idle
  /\ users' = IF found /\ err = "none"
                THEN [users EXCEPT ![id] = SetAttrs(@, username, email, phone)]
                ELSE users
  /\ last' = IF ~found THEN RejectedFor("user_put", id, "404", "user_not_found")
             ELSE IF err = "none" THEN Done("user_put", id, 0, 0, 0, "201")
             ELSE RejectedFor("user_put", id, UserRestStatus(err), err)
  /\ UNCHANGED <<sessions, purses, transactions, unsaved>>

\* is_free_username / is_free_email / is_free_phone_number: no row other than
\* _id holds the value.
is_free(us, column, value, id) ==
  ~\E i \in DOMAIN us : i # id /\ us[i][column] = value

\* UserForm.validate: every field is required.
UserFormError(us, id, username, email, phone, birth_ok) ==
  IF ~is_free(us, "username", username, id) THEN "username_taken"
  ELSE IF ~is_free(us, "email", email, id) THEN "email_taken"
  ELSE IF ~is_free(us, "phone", phone, id) THEN "phone_taken"
  ELSE IF ~birth_ok THEN "invalid_birth_date"
  ELSE "none"

\* POST /users/<_id> (view): _id = 0 creates a user, another _id updates the
\* row, active or not; a form that does not validate is shown again.
UserBlueprint_edit(id, username, email, phone, birth_ok) ==
  LET err == UserFormError(users, id, username, email, phone, birth_ok) IN
  /\ last = Idle
  /\ (id = 0 /\ err = "none") => Len(users) < MaxUsers
  /\ users' = IF id # 0 /\ id \notin DOMAIN users THEN users
              ELSE IF err # "none" THEN users
              ELSE IF id = 0 THEN Append(users, NewUser(username, email, phone))
              ELSE [users EXCEPT ![id] = SetAttrs(@, username, email, phone)]
  /\ last' = IF id # 0 /\ id \notin DOMAIN users
               THEN Rejected("user_view_post", "404", "user_not_found")
             ELSE IF err # "none" THEN Rejected("user_view_post", "200", err)
             ELSE Done("user_view_post", IF id = 0 THEN Len(users) + 1 ELSE id,
                       0, 0, 0, "200")
  /\ UNCHANGED <<sessions, purses, transactions, unsaved>>

\* The record of a rate lookup: the two currencies and the value returned.
Lookup(currency_from, currency_to, rate) ==
  [op |-> "get_rate", id |-> 0, from |-> 0, to |-> 0, amount |-> rate,
   status |-> "returned", error |-> "none",
   currency_from |-> currency_from, currency_to |-> currency_to]

\* Rates.get_rate(currency_from, currency_to) for two members of Currency.
Rates_get_rate(currency_from, currency_to) ==
  /\ last = Idle
  /\ last' = Lookup(currency_from, currency_to, get_rate(currency_from, currency_to))
  /\ UNCHANGED <<sessions, users, purses, transactions, unsaved>>

\* The answer has gone back to the caller; requests are handled one at a
\* time, so the next call starts from here.
Respond ==
  /\ last # Idle
  /\ last' = Idle
  /\ UNCHANGED <<sessions, users, purses, transactions, unsaved>>

\* ------------------------------------------------------------------- Init
\* One user with one USD purse, as the test fixture seeds its first purse.
Init ==
  /\ users = <<NewUser(1, 1, 1)>>
  /\ purses = <<[user_id |-> 1, currency |-> "USD",
                 balance |-> FixtureUnits * Unit, is_active |-> TRUE]>>
  /\ transactions = << >>
  /\ unsaved = << >>
  /\ last = Idle
  /\ sessions = [s \in SessionIds |-> NoSession]

Next ==
  \/ TransactionInit
  \/ SessionAddCommit
  \/ TransactionsListAPI_post
  \/ \E id \in 0..1 : TransactionBlueprint_edit(id)
  \/ \E u \in UserIds, c \in CurrencyArgs : PursesListAPI_post(u, c)
  \/ PursesListAPI_get
  \/ PurseBlueprint_list
  \/ \E id \in PurseIds : PursesAPI_delete(id)
  \/ \E id \in PurseIds : PurseBlueprint_delete(id)
  \/ \E id \in UserIds : UsersAPI_delete(id)
  \/ \E id \in UserIds : UserBlueprint_delete(id)
  \/ Respond

Spec == Init /\ [][Next]_vars

\* The transfer path alone, one construction longer: purses are created and
\* Transaction objects are constructed and stored, nothing is deactivated.
NextRepeat ==
  \/ TransactionInitUpTo(MaxTransfers + 1)
  \/ SessionAddCommit
  \/ \E u \in UserIds, c \in CurrencyArgs : PursesListAPI_post(u, c)
  \/ Respond

SpecRepeat == Init /\ [][NextRepeat]_vars

\* Rate lookups between purse creations and transfers.
NextRates ==
  \/ \E cf \in Currency, ct \in Currency : Rates_get_rate(cf, ct)
  \/ TransactionInit
  \/ SessionAddCommit
  \/ \E u \in UserIds, c \in CurrencyArgs : PursesListAPI_post(u, c)
  \/ Respond

SpecRates == Init /\ [][NextRates]_vars

\* The first two purses of the test fixture, USD and EUR, equally funded.
FixturePurses ==
  <<[user_id |-> 1, currency |-> "USD", balance |-> FixtureUnits * Unit,
     is_active |-> TRUE],
    [user_id |-> 1, currency |-> "EUR", balance |-> FixtureUnits * Unit,
     is_active |-> TRUE]>>

\* Every route that writes or could write an is_active flag: users and purses
\* are created, updated and deleted, and transfers are requested.  A user's
\* username, email and phone are drawn alike.
NextLifecycle ==
  \/ \E h \in Handles : UsersListAPI_post(h, h, h, TRUE)
  \/ \E id \in UserIds, h \in Handles : UsersAPI_put(id, h, h, h, TRUE)
  \/ \E id \in UserIds \cup {0}, h \in Handles : UserBlueprint_edit(id, h, h, h, TRUE)
  \/ \E id \in UserIds : UsersAPI_delete(id)
  \/ \E id \in UserIds : UserBlueprint_delete(id)
  \/ \E u \in UserIds, c \in {"USD", "XXX"} : PursesListAPI_post(u, c)
  \/ \E id \in PurseIds : PursesAPI_delete(id)
  \/ \E id \in PurseIds : PurseBlueprint_delete(id)
  \/ TransactionsListAPI_post
  \/ \E id \in 0..1 : TransactionBlueprint_edit(id)
  \/ Respond

SpecLifecycle == Init /\ [][NextLifecycle]_vars

\* A funded purse of one catalog currency and an empty purse of another, for
\* every ordered pair of different currencies.
InitRoundTrip ==
  /\ users = <<NewUser(1, 1, 1)>>
  /\ \E cf \in Currency, ct \in Currency :
       /\ cf # ct
       /\ purses = <<[user_id |-> 1, currency |-> cf,
                      balance |-> FixtureUnits * Unit, is_active |-> TRUE],
                     NewPurse(1, ct)>>
  /\ transactions = << >>
  /\ unsaved = << >>
  /\ last = Idle
  /\ sessions = [s \in SessionIds |-> NoSession]

\* The transfers that send back what an earlier transfer credited.
ReturnArgs ==
  {<<r.purse_to_id, r.purse_from_id, r.purse_to_amount>> :
     r \in {(transactions \o unsaved)[i] : i \in DOMAIN (transactions \o unsaved)}}

\* Transfers between the two purses, those that send a credit back included.
NextRoundTrip ==
  \/ TransactionInitWith(TransferArgs \cup ReturnArgs, MaxTransfers + 1)
  \/ SessionAddCommit
  \/ Respond

SpecRoundTrip == InitRoundTrip /\ [][NextRoundTrip]_vars

\* The three purses of the test fixture: USD, EUR and a second USD purse.
FixturePurses3 ==
  Append(FixturePurses,
         [user_id |-> 1, currency |-> "USD", balance |-> FixtureUnits * Unit,
          is_active |-> TRUE])

InitFrame ==
  /\ users = <<NewUser(1, 1, 1)>>
  /\ purses = FixturePurses3
  /\ transactions = << >>
  /\ unsaved = << >>
  /\ last = Idle
  /\ sessions = [s \in SessionIds |-> NoSession]

\* Transfers in the fixture's store, with the owner deleted at any point.  A
\* transfer of nothing is left out: it changes no balance.
NextFrame ==
  \/ TransactionInitWith({x \in TransferArgs : x[3] # 0}, MaxTransfers + 1)
  \/ SessionAddCommit
  \/ \E id \in UserIds : UsersAPI_delete(id)
  \/ Respond

SpecFrame == InitFrame /\ [][NextFrame]_vars

InitConcurrent ==
  /\ users = <<NewUser(1, 1, 1)>>
  /\ purses = FixturePurses
  /\ transactions = << >>
  /\ unsaved = << >>
  /\ last = Idle
  /\ sessions = [s \in SessionIds |-> NoSession]

\* Two sessions construct one Transaction each, their statements interleaved.
NextConcurrent ==
  \/ \E s \in SessionIds : Begin(s)
  \/ \E s \in SessionIds : QueryFrom(s)
  \/ \E s \in SessionIds : QueryTo(s)
  \/ \E s \in SessionIds : Commit(s)

SpecConcurrent == InitConcurrent /\ [][NextConcurrent]_vars

\* The users side alone: users are created, updated and deleted.
NextUsers ==
  \/ \E u \in Handles, e \in Handles, p \in Handles, b \in BOOLEAN :
       UsersListAPI_post(u, e, p, b)
  \/ \E id \in UserIds, u \in Handles \cup {None}, e \in Handles \cup {None},
        p \in Handles \cup {None}, b \in BOOLEAN :
       UsersAPI_put(id, u, e, p, b)
  \/ \E id \in UserIds \cup {0}, u \in Handles, e \in Handles, p \in Handles,
        b \in BOOLEAN :
       UserBlueprint_edit(id, u, e, p, b)
  \/ \E id \in UserIds : UsersAPI_get(id)
  \/ \E id \in UserIds : UsersAPI_delete(id)
  \/ \E id \in UserIds : UserBlueprint_delete(id)
  \/ Respond

SpecUsers == Init /\ [][NextUsers]_vars

\* ================================================================ claims
Range(seq) == {seq[i] : i \in DOMAIN seq}

TransferOps == {"Transaction", "rest_post", "view_post"}

\* The last call was a transfer that went through.
TransferApplied == last.op \in TransferOps /\ last.error = "none"

\* Both ids name purse rows that are active, and the two differ.
ActivePair(f, t) ==
  /\ f \in DOMAIN purses /\ t \in DOMAIN purses
  /\ purses[f].is_active /\ purses[t].is_active
  /\ f # t

\* The program waits for the next call: the state a request is answered from.
Waiting == last = Idle

\* C1: a transfer is one atomic unit: no committed state holds the debit and
\* the credit of a transfer whose Transaction record is not stored.  The
\* objects in unsaved are exactly the transfers whose balance changes
\* __init__ has committed and whose record no one has stored yet.
C1_TransferIsAtomic == unsaved = << >>

\* C2: a successful transfer takes exactly the amount from the source and
\* adds exactly the record's purse_to_amount to the destination.
C2_ExactDeltas ==
  [][(last'.op = "Transaction" /\ last'.status = "returned") =>
       LET rec == unsaved'[Len(unsaved')] IN
       /\ rec.purse_from_id = last'.from /\ rec.purse_to_id = last'.to
       /\ rec.purse_from_amount = last'.amount
       /\ purses'[last'.from].balance = purses[last'.from].balance - last'.amount
       /\ purses'[last'.to].balance = purses[last'.to].balance + rec.purse_to_amount]_vars

C2_Witness ==
  /\ TransferApplied /\ last.amount > 0
  /\ purses[last.from].currency # purses[last.to].currency

\* C3: every record carries purse_to_amount = purse_from_amount * rate of
\* the table for its two currencies, and the same amount when they are equal.
C3_ConvertedAmount ==
  \A r \in Range(transactions) \cup Range(unsaved) :
    /\ r.purse_from_amount % 1000 = 0
    /\ r.purse_to_amount =
         (r.purse_from_amount \div 1000) * Rates[r.purse_from_currency][r.purse_to_currency]
    /\ r.purse_from_currency = r.purse_to_currency
         => r.purse_to_amount = r.purse_from_amount

C3_Witness ==
  \E r \in Range(transactions) :
    /\ r.purse_from_currency = "USD" /\ r.purse_to_currency = "EUR"
    /\ r.purse_from_amount = Unit /\ r.purse_to_amount = 950000

\* C4: between two distinct active purses, an amount above the source
\* balance is turned down as insufficient funds by the model and by the REST
\* validation, and a call turned down that way leaves the purses as they were.
C4_InsufficientFunds ==
  /\ [](\A f \in PurseIds, t \in PurseIds, a \in Amounts :
          (Waiting /\ ActivePair(f, t) /\ a > purses[f].balance) =>
             /\ ModelOutcome(purses, f, t, a) = <<"ValueError", "insufficient">>
             /\ RestOutcome(purses, f, t, a) = <<"400", "insufficient">>
             /\ InitPurses(purses, f, t, a) = purses)
  /\ [][(last'.op \in TransferOps /\ last'.error = "insufficient")
          => purses' = purses]_vars

C4_Witness ==
  /\ last.op = "rest_post" /\ last.status = "400" /\ last.error = "insufficient"
  /\ \E f \in PurseIds, t \in PurseIds :
       ActivePair(f, t) /\ purses[f].balance = FixtureUnits * Unit

\* C5: no purse balance is ever below zero.
C5_NonNegativeBalance == \A p \in DOMAIN purses : purses[p].balance >= 0

C7_SelfTransferAlwaysSamePurse ==
  \A f \in PurseIds, a \in Amounts :
    f \in DOMAIN purses =>
      /\ ModelOutcome(purses, f, f, a)[2] = "same_purse"
      /\ RestOutcome(purses, f, f, a)[2] = "same_purse"

\* C7 amended: a transfer from an existing purse to itself is turned down as
\* same-purse by the model, and by the REST validation when the purse is
\* active; for an inactive purse the REST validation answers not-found.
C7_SelfTransfer ==
  \A f \in PurseIds, a \in Amounts :
    (Waiting /\ f \in DOMAIN purses) =>
      /\ ModelOutcome(purses, f, f, a) = <<"ValueError", "same_purse">>
      /\ purses[f].is_active
           => RestOutcome(purses, f, f, a) = <<"400", "same_purse">>
      /\ ~purses[f].is_active
           => RestOutcome(purses, f, f, a) = <<"400", "not_found_from">>

C7_Witness ==
  /\ last.op = "rest_post" /\ last.status = "400" /\ last.error = "same_purse"
  /\ \E f \in DOMAIN purses : purses[f].is_active /\ purses[f].balance >= Unit

\* C8: a transfer naming a purse id without a row is turned down as
\* not-found, 400 on the REST endpoint and ValueError in the model, whether
\* the missing id is the source or the destination.
C8_MissingPurse ==
  Waiting => \A f \in PurseIds, t \in PurseIds, a \in Amounts :
    /\ f \notin DOMAIN purses =>
         /\ ModelOutcome(purses, f, t, a) = <<"ValueError", "not_found_from">>
         /\ RestOutcome(purses, f, t, a) = <<"400", "not_found_from">>
    /\ (f \in DOMAIN purses /\ t \notin DOMAIN purses) =>
         /\ ModelOutcome(purses, f, t, a) = <<"ValueError", "not_found_to">>
         /\ RestOutcome(purses, f, t, a)[1] = "400"
         /\ RestOutcome(purses, f, t, a)[2] \in {"not_found_from", "not_found_to"}
         /\ purses[f].is_active
              => RestOutcome(purses, f, t, a)[2] = "not_found_to"

C8_Witness ==
  /\ last.op = "Transaction" /\ last.status = "ValueError"
  /\ last.error = "not_found_to"
  /\ Len(purses) < MaxPurses

\* C9: no transfer goes through with an inactive purse as its source or as
\* its destination.
C9_InactiveNeverEndpoint ==
  TransferApplied =>
    purses[last.from].is_active /\ purses[last.to].is_active

\* The order of the checks as C10 states it: the first one that fails.
FirstFailingCheck(ps, f, t, a) ==
  IF f \notin DOMAIN ps \/ ~ps[f].is_active THEN "not_found_from"
  ELSE IF t \notin DOMAIN ps \/ ~ps[t].is_active THEN "not_found_to"
  ELSE IF f = t THEN "same_purse"
  ELSE IF ps[f].balance < a THEN "insufficient"
  ELSE "none"

\* C10: the error a transfer reports is the one of the first failing check in
\* the order source, destination, distinct, funds.
C10_CheckOrder ==
  \A f \in PurseIds, t \in PurseIds, a \in Amounts :
    FirstFailingCheck(purses, f, t, a) # "none" =>
      /\ ModelOutcome(purses, f, t, a)[2] = FirstFailingCheck(purses, f, t, a)
      /\ RestOutcome(purses, f, t, a) = <<"400", FirstFailingCheck(purses, f, t, a)>>

\* C11: a transfer with a zero or negative amount is never applied: no record,
\* stored or about to be stored, carries an amount that is not positive, and
\* no transfer call with such an amount goes through.
C11_PositiveAmountOnly ==
  /\ \A r \in Range(transactions) \cup Range(unsaved) : r.purse_from_amount > 0
  /\ TransferApplied => last.amount > 0

C14_ValidRequestSucceeds ==
  \A f \in PurseIds, t \in PurseIds, a \in Amounts :
    (ActivePair(f, t) /\ a > 0 /\ a <= purses[f].balance) =>
      /\ RestOutcome(purses, f, t, a) = <<"201", "none">>
      /\ EditOutcome(transactions, purses, 0, f, t, a) = <<"200", "none">>

\* Transaction objects in the order they were constructed.
Constructed == transactions \o unsaved

\* C15: a transfer is not idempotent.  Whenever a call and its repetition with
\* the same arguments both go through, the second builds a record with the
\* same contents in a row of its own, the source ends twice the amount lower
\* and the destination twice the converted amount higher; and every call
\* that goes through adds one object and keeps the earlier ones.
C15_NotIdempotent ==
  /\ [](\A f \in PurseIds, t \in PurseIds, a \in Amounts :
          LET once  == InitPurses(purses, f, t, a)
              twice == InitPurses(once, f, t, a)
          IN (Waiting /\ ModelError(purses, f, t, a) = "none"
                /\ ModelError(once, f, t, a) = "none") =>
               /\ NewTransaction(once, f, t, a) = NewTransaction(purses, f, t, a)
               /\ twice[f].balance = purses[f].balance - 2 * a
               /\ twice[t].balance =
                    purses[t].balance + 2 * purse_to_amount(purses, f, t, a))
  /\ [][(last'.op = "Transaction" /\ last'.status = "returned") =>
          /\ Len(Constructed') = Len(Constructed) + 1
          /\ \A i \in DOMAIN Constructed : Constructed'[i] = Constructed[i]]_vars

\* The seeded purse has sent the same positive amount to purse 2 twice.
C15_Witness ==
  /\ Len(Constructed) = 2 /\ Constructed[1] = Constructed[2]
  /\ Constructed[1].purse_from_id = 1 /\ Constructed[1].purse_to_id = 2
  /\ Constructed[1].purse_from_amount > 0
  /\ purses[1].balance = FixtureUnits * Unit - 2 * Constructed[1].purse_from_amount
  /\ purses[2].balance = 2 * Constructed[1].purse_to_amount
  /\ purses[1].currency # purses[2].currency

\* C16: a transfer of exactly the source balance passes the balance check of
\* the model and of the REST validation, goes through in the model, and
\* leaves the source at exactly 0.
C16_WholeBalance ==
  /\ [](\A f \in DOMAIN purses, t \in DOMAIN purses :
          (Waiting /\ f # t) =>
            /\ ModelOutcome(purses, f, t, purses[f].balance) = <<"returned", "none">>
            /\ InitPurses(purses, f, t, purses[f].balance)[f].balance = 0
            /\ ActivePair(f, t) => RestError(purses, f, t, purses[f].balance) = "none")
  /\ [][(last'.op = "Transaction" /\ last'.status = "returned"
            /\ last'.amount = purses[last'.from].balance)
          => purses'[last'.from].balance = 0]_vars

C16_Witness ==
  /\ last.op = "Transaction" /\ last.status = "returned"
  /\ last.amount = FixtureUnits * Unit /\ last.from = 1
  /\ purses[1].balance = 0
  /\ purses[last.to].balance = purse_to_amount(purses, 1, last.to, last.amount)

PurseDeleteOps == {"purse_delete", "purse_view_delete"}

\* C17: deleting a purse clears its is_active flag and nothing else: the row
\* stays with its balance, currency and owner, the other purses, the users
\* and the Transaction records (stored or not) are as before.
C17_DeactivateOnlyFlag ==
  [][(last'.op \in PurseDeleteOps /\ last'.error = "none") =>
       /\ DOMAIN purses' = DOMAIN purses
       /\ ~purses'[last'.id].is_active
       /\ \A p \in DOMAIN purses :
            /\ purses'[p].balance = purses[p].balance
            /\ purses'[p].currency = purses[p].currency
            /\ purses'[p].user_id = purses[p].user_id
            /\ p # last'.id => purses'[p].is_active = purses[p].is_active
       /\ transactions' = transactions
       /\ unsaved' = unsaved
       /\ users' = users]_vars

\* A purse that holds money and is named by a stored record has been deleted.
C17_Witness ==
  /\ last.op \in PurseDeleteOps /\ last.error = "none"
  /\ purses[last.id].balance > 0
  /\ \E r \in Range(transactions) :
       r.purse_from_id = last.id \/ r.purse_to_id = last.id
  /\ \E p \in DOMAIN purses : p # last.id /\ purses[p].is_active

PurseListOps == {"purse_list", "purse_view_list"}

\* C18: no purse listing, by the REST API or by the view, returns a purse
\* that has been deactivated.
C18_ListingsSkipInactive ==
  last.op \in PurseListOps => \A p \in last.rows : purses[p].is_active

UserDeleteOps == {"user_delete", "user_view_delete"}

\* C19: deleting a user is one step that keeps the user row, clears its
\* is_active flag and clears the flag of every purse the user owns; and a
\* purse of an inactive user that is inactive stays so, hence no state shows
\* the user inactive with a purse owned at deletion time still active.
C19_UserDeleteCascades ==
  /\ [][(last'.op \in UserDeleteOps /\ last'.error = "none") =>
          /\ DOMAIN users' = DOMAIN users
          /\ ~users'[last'.id].is_active
          /\ \A p \in DOMAIN purses :
               purses[p].user_id = last'.id =>
                 p \in DOMAIN purses' /\ ~purses'[p].is_active]_vars
  /\ [][\A p \in DOMAIN purses :
          (~users[purses[p].user_id].is_active /\ ~purses[p].is_active) =>
             p \in DOMAIN purses' /\ ~purses'[p].is_active]_vars

\* The user has been deleted while owning two purses, one of them with money.
C19_Witness ==
  /\ last.op \in UserDeleteOps /\ last.error = "none"
  /\ ~users[last.id].is_active
  /\ Len(purses) = 2
  /\ \A p \in DOMAIN purses : purses[p].user_id = last.id /\ ~purses[p].is_active
  /\ \E p \in DOMAIN purses : purses[p].balance > 0

UniqueColumns == {"username", "email", "phone"}

\* C20: no two user rows, active or not, hold the same username, the same
\* email or the same phone; and the REST validation answers 400 to a create
\* or an update that names a username, an email or a phone some row holds.
C20_UniqueUserKeys ==
  /\ \A i \in DOMAIN users, j \in DOMAIN users, c \in UniqueColumns :
       i # j => users[i][c] # users[j][c]
  /\ \A u \in Handles, e \in Handles, p \in Handles, b \in BOOLEAN :
       (Holds(users, "username", u) \/ Holds(users, "email", e)
          \/ Holds(users, "phone", p)) =>
         /\ UserRestError(users, u, e, p, b)
              \in {"username_taken", "email_taken", "phone_taken"}
         /\ UserRestStatus(UserRestError(users, u, e, p, b)) = "400"

\* A create was answered 400 for its email while two rows exist, one of them
\* inactive.
C20_Witness ==
  /\ last.op = "user_post" /\ last.status = "400" /\ last.error = "email_taken"
  /\ Len(users) = 2
  /\ \E i \in DOMAIN users : ~users[i].is_active

\* What a call that has ended shows of itself in a run where the calls in
\* order run one after the other from the fixture's purses.
SerialPc(ps, me) ==
  IF ModelError(ps, me.from, me.to, me.amount) = "none" THEN "returned" ELSE "raised"

\* The two calls run first, then second: purses at the end, and how each call
\* ended.
SerialRun(first, second) ==
  LET a   == sessions[first]
      b   == sessions[second]
      mid == InitPurses(FixturePurses, a.from, a.to, a.amount)
  IN [purses |-> InitPurses(mid, b.from, b.to, b.amount),
      pcs    |-> [s \in SessionIds |->
                    IF s = first THEN SerialPc(FixturePurses, a) ELSE SerialPc(mid, b)]]

\* C12: when two concurrent transfers have both ended, the purses and the way
\* each call ended are those of the two calls run one after the other, in
\* one of the two orders.
C12_Serializable ==
  (\A s \in SessionIds : sessions[s].pc \in {"returned", "raised"}) =>
    \E order \in {<<1, 2>>, <<2, 1>>} :
      /\ purses = SerialRun(order[1], order[2]).purses
      /\ \A s \in SessionIds : sessions[s].pc = SerialRun(order[1], order[2]).pcs[s]

\* C21: every Transaction record, stored or about to be stored, names two
\* different purses, and both ids are rows of the purses table in every
\* state: a purse row is never removed, so the references never dangle.
C21_RecordRefsValid ==
  \A r \in Range(transactions) \cup Range(unsaved) :
    /\ r.purse_from_id # r.purse_to_id
    /\ r.purse_from_id \in DOMAIN purses
    /\ r.purse_to_id \in DOMAIN purses

\* A stored record names a purse that was deleted after the transfer.
C21_Witness ==
  /\ last.op \in PurseDeleteOps /\ last.error = "none"
  /\ \E r \in Range(transactions) :
       /\ r.purse_from_id = last.id
       /\ ~purses[r.purse_from_id].is_active
       /\ purses[r.purse_to_id].is_active

\* C22: the two currencies of a Transaction record are the currencies of
\* its source and destination purse rows at the moment of the transfer,
\* whatever currencies and purse_to_amount the caller passed, and no later
\* step changes them in a record that exists.
C22_CurrencySnapshot ==
  /\ [](\A f \in PurseIds, t \in PurseIds, a \in Amounts :
          (Waiting /\ ModelError(purses, f, t, a) = "none") =>
            \A cf \in KwargCurrencies, ct \in KwargCurrencies, b \in KwargAmounts :
              LET rec == TransactionAttrs(purses, Kwargs(f, t, a, cf, ct, b)) IN
              /\ rec.purse_from_currency = purses[f].currency
              /\ rec.purse_to_currency = purses[t].currency)
  /\ [][(last'.op = "Transaction" /\ last'.status = "returned") =>
          LET rec == unsaved'[Len(unsaved')] IN
          /\ rec.purse_from_currency = purses[last'.from].currency
          /\ rec.purse_to_currency = purses[last'.to].currency]_vars
  /\ [][\A i \in DOMAIN Constructed :
          /\ Constructed'[i].purse_from_currency = Constructed[i].purse_from_currency
          /\ Constructed'[i].purse_to_currency = Constructed[i].purse_to_currency]_vars

\* A USD purse has paid a EUR purse, the record is stored, and a later call
\* has been answered.
C22_Witness ==
  /\ \E r \in Range(transactions) :
       /\ r.purse_from_currency = "USD" /\ r.purse_to_currency = "EUR"
       /\ purses[r.purse_from_id].currency = "USD"
       /\ purses[r.purse_to_id].currency = "EUR"
  /\ last.op \in UserDeleteOps /\ last.error = "none"

\* C23: Rates.get_rate answers every ordered pair of catalog currencies with
\* a value above zero, answers every pair of a currency with itself with
\* exactly 1 (1000 thousandths), and a lookup changes nothing in the store.
C23_RateTableTotal ==
  /\ [](last.op = "get_rate" =>
          /\ last.amount > 0
          /\ last.currency_from = last.currency_to => last.amount = 1000)
  /\ [][last'.op = "get_rate" =>
          /\ users' = users /\ purses' = purses
          /\ transactions' = transactions /\ unsaved' = unsaved]_vars

\* The smallest rate of the table has been looked up after a transfer.
C23_Witness ==
  /\ last.op = "get_rate"
  /\ last.currency_from = "UAH" /\ last.currency_to = "GBP" /\ last.amount = 23
  /\ transactions # << >>

\* C24: a purse creation that names a user id without a row, or a currency
\* outside the catalog, is turned down (ValueError in the model, 400 on POST
\* /api/purses) and adds no purse row; a creation that goes through adds one
\* row, for an existing user and a catalog currency, with balance 0 and
\* is_active true, and keeps the rows there were.
C24_PurseCreation ==
  /\ [](\A u \in UserIds, c \in CurrencyArgs :
          (Waiting /\ (u \notin DOMAIN users \/ c \notin Currency)) =>
            /\ PurseModelOutcome(users, u, c)[1] = "ValueError"
            /\ PurseError(users, u, c) \in {"user_not_found", "invalid_currency"})
  /\ [][(last'.op = "purse_post" /\ last'.error # "none") =>
          last'.status = "400" /\ purses' = purses]_vars
  /\ [][(last'.op = "purse_post" /\ last'.error = "none") =>
          /\ Len(purses') = Len(purses) + 1
          /\ \A p \in DOMAIN purses : purses'[p] = purses[p]
          /\ purses'[last'.id].balance = 0
          /\ purses'[last'.id].is_active
          /\ purses'[last'.id].user_id \in DOMAIN users
          /\ purses'[last'.id].currency \in Currency]_vars

\* A creation has been turned down for its user id after another one went
\* through.
C24_Witness ==
  /\ last.op = "purse_post" /\ last.status = "400" /\ last.error = "user_not_found"
  /\ Len(purses) = 2
  /\ purses[2].balance = 0 /\ purses[2].is_active

\* The balance a purse row had when it was created: the seeded purse holds
\* the fixture's opening balance, a purse made by a request starts at 0.
OpeningBalance(p) == IF p = 1 THEN FixtureUnits * Unit ELSE 0

\* Sum of purse_from_amount over the records of txs with p as source.
RECURSIVE SentBy(_, _)
SentBy(txs, p) ==
  IF txs = << >> THEN 0
  ELSE (IF Head(txs).purse_from_id = p THEN Head(txs).purse_from_amount ELSE 0)
         + SentBy(Tail(txs), p)

\* Sum of purse_to_amount over the records of txs with p as destination.
RECURSIVE ReceivedBy(_, _)
ReceivedBy(txs, p) ==
  IF txs = << >> THEN 0
  ELSE (IF Head(txs).purse_to_id = p THEN Head(txs).purse_to_amount ELSE 0)
         + ReceivedBy(Tail(txs), p)

\* C25: in every committed state each purse's balance is its balance at
\* creation, minus what the stored Transaction records say it sent, plus
\* what they say it received.
C25_LedgerConsistent ==
  \A p \in DOMAIN purses :
    purses[p].balance =
      OpeningBalance(p) - SentBy(transactions, p) + ReceivedBy(transactions, p)

\* C26: every active purse is owned by an active user; once a user has been
\* deleted, no state shows an active purse of that user.
C26_ActivePurseActiveOwner ==
  \A p \in DOMAIN purses :
    purses[p].is_active => users[purses[p].user_id].is_active

\* C27: a transfer that goes through changes the balance of its source and
\* of its destination and builds one Transaction object, and nothing else:
\* every other purse keeps its balance, every purse keeps its is_active
\* flag, currency and owner, and the users and the records there were are
\* as before.
C27_TransferFrame ==
  [][(last'.op = "Transaction" /\ last'.status = "returned") =>
       /\ DOMAIN purses' = DOMAIN purses
       /\ \A p \in DOMAIN purses :
            /\ p \notin {last'.from, last'.to} => purses'[p].balance = purses[p].balance
            /\ purses'[p].is_active = purses[p].is_active
            /\ purses'[p].currency = purses[p].currency
            /\ purses'[p].user_id = purses[p].user_id
       /\ users' = users
       /\ transactions' = transactions
       /\ Len(Constructed') = Len(Constructed) + 1
       /\ \A i \in DOMAIN Constructed : Constructed'[i] = Constructed[i]]_vars

\* A second transfer has gone through between two purses of a deleted user,
\* with a record stored before it and a third purse that holds money.
C27_Witness ==
  /\ last.op = "Transaction" /\ last.status = "returned" /\ last.amount > 0
  /\ transactions # << >>
  /\ ~purses[last.from].is_active
  /\ \E p \in DOMAIN purses :
       /\ p \notin {last.from, last.to}
       /\ purses[p].balance = FixtureUnits * Unit
       /\ purses[p].currency = purses[last.from].currency

RestUserOps == {"user_get", "user_put", "user_delete"}

RoundTripDone ==
  /\ Len(Constructed) = 2
  /\ Constructed[1].purse_from_id = 1 /\ Constructed[1].purse_to_id = 2
  /\ Constructed[1].purse_from_amount > 0
  /\ Constructed[2].purse_from_id = 2 /\ Constructed[2].purse_to_id = 1
  /\ Constructed[2].purse_from_amount = Constructed[1].purse_to_amount

\* The pairs of currencies whose two rates multiply to less than 1, and the
\* pairs whose two rates multiply to more than 1.
LosingPairs  == {{"USD", "EUR"}, {"USD", "UAH"}, {"EUR", "GBP"}}
GainingPairs == {{"USD", "GBP"}, {"EUR", "UAH"}, {"GBP", "UAH"}}

\* C30 as stated: a round trip never creates money: after it, purse 1 holds
\* no more than it held before the first transfer, for every ordered pair
\* of different catalog currencies.
C30_RoundTripNoGain ==
  RoundTripDone => purses[1].balance <= FixtureUnits * Unit

\* C30 amended: after a round trip purse 1 holds what it held, less the
\* amount sent, plus that amount times the two rates; that is less than
\* before for USD-EUR, USD-UAH and EUR-GBP in either direction, and more
\* than before for USD-GBP, EUR-UAH and GBP-UAH in either direction.
C30_RoundTripByPair ==
  RoundTripDone =>
    LET cf == purses[1].currency
        ct == purses[2].currency
        x  == Constructed[1].purse_from_amount
    IN /\ purses[1].balance =
            FixtureUnits * Unit - x + Times(Times(x, Rates[cf][ct]), Rates[ct][cf])
       /\ purses[2].balance = 0
       /\ {cf, ct} \in LosingPairs => purses[1].balance < FixtureUnits * Unit
       /\ {cf, ct} \in GainingPairs => purses[1].balance > FixtureUnits * Unit

\* A round trip from UAH through GBP and back has been made and stored.
C30_Witness ==
  /\ RoundTripDone /\ unsaved = << >>
  /\ purses[1].currency = "UAH" /\ purses[2].currency = "GBP"
  /\ purses[1].balance > FixtureUnits * Unit

====
